---- MODULE Spec2Model ----
(***************************************************************************)
(* The LLM-driven scraping agent of src/main.py and src/experimental.py.   *)
(*                                                                         *)
(* Both files define a class GroqWebScraper; `variant` says which of the   *)
(* two a scraper instance is.  One instance runs execute_agent_loop        *)
(* several times, one call after the other; the experimental instance      *)
(* keeps its content_store between the calls.                              *)
(*                                                                         *)
(* A Python str is a sequence of tokens (pieces of text); the tokens are   *)
(* cut where the code cuts: at the prefixes startswith() looks for and at  *)
(* the places an f-string splices a value in.  A model reply is a sequence *)
(* of segments (prose, a ``` fence, the json tag, a JSON text).            *)
(***************************************************************************)
EXTENDS Integers, Sequences, FiniteSets, TLC

VARIABLES variant, pc, executions, conversation_history, content_store,
          uuid_count, step, calls, response, llm_message, action,
          raw_result, returned, adapter_calls, issued, threads

vars == <<variant, pc, executions, conversation_history, content_store,
          uuid_count, step, calls, response, llm_message, action,
          raw_result, returned, adapter_calls, issued, threads>>

\* ------------------------------------------------------------- bounds
\* calls of execute_agent_loop made on one scraper instance
MaxExecs == 2
\* uuid4 values drawn over the life of one instance
MaxStored == 5
\* calls of the model endpoint the loop makes over the life of one instance
MaxCalls == 5
\* threads that call execute_agent_loop on one instance at the same time
MaxThreads == 2
\* calls of _store_content those threads make, all together
MaxThreadStores == 2

\* ---------------------------------------------------- program constants
\* max_steps = 5 (main.py:94, experimental.py:149)
max_steps == 5
\* self.max_html_length = 6000
max_html_length == 6000

\* ------------------------------------------------------------ strings
EmptyStr == <<>>
GROQ_SYSTEM_PROMPT == <<"You are a senior web scraping agent">>
FORMATTING_SYSTEM_PROMPT == <<"You are an expert data formatter">>

\* str.startswith(prefixes) with a tuple of prefixes: the prefixes the code
\* looks for are tokens of their own, so a str starts with one of them iff
\* its first token is one of them.
StartsWith(s, prefixes) == Len(s) >= 1 /\ s[1] \in prefixes

\* Optional[str]: None, or a str
None == [some |-> FALSE, v |-> EmptyStr]
Some(s) == [some |-> TRUE, v |-> s]
\* Python truthiness of an Optional[str]: None and "" are falsy
Truthy(o) == o.some /\ o.v # EmptyStr

\* ------------------------------------------------------------ messages
Message(role, content) == [role |-> role, content |-> content]

\* --------------------------------------------------- JSON and model replies
\* A JSON object is a function from the keys it has to their (string) values.
EmptyObj == [k \in {} |-> EmptyStr]
\* What a JSON text is: an object, a number, or an object cut off before its
\* closing brace.  NoJson marks a segment that holds no JSON text.
JObject(o) == [kind |-> "object", obj |-> o]
JNumber == [kind |-> "number", obj |-> EmptyObj]
JTruncated == [kind |-> "truncated", obj |-> EmptyObj]
NoJson == [kind |-> "none", obj |-> EmptyObj]

\* The segments of a reply
Fence == [t |-> "fence", j |-> NoJson]
Tag == [t |-> "tag", j |-> NoJson]
Prose == [t |-> "text", j |-> NoJson]
JsonText(j) == [t |-> "json", j |-> j]

HasOpenBrace(seg) == seg.t = "json" /\ seg.j.kind \in {"object", "truncated"}
HasCloseBrace(seg) == seg.t = "json" /\ seg.j.kind = "object"

Min(a, b) == IF a < b THEN a ELSE b
Max(a, b) == IF a > b THEN a ELSE b

\* s.split(sep): the pieces of s between the non-overlapping occurrences of sep
RECURSIVE SplitFrom(_, _, _)
SplitFrom(s, sep, cur) ==
    IF s = <<>> THEN <<cur>>
    ELSE IF Len(s) >= Len(sep) /\ SubSeq(s, 1, Len(sep)) = sep
         THEN <<cur>> \o SplitFrom(SubSeq(s, Len(sep) + 1, Len(s)), sep, <<>>)
         ELSE SplitFrom(Tail(s), sep, Append(cur, Head(s)))
Split(s, sep) == SplitFrom(s, sep, <<>>)

\* s.find("{") and s.rfind("}"): the 0-based position, -1 when there is none
Find(s) ==
    LET hits == {i \in 1..Len(s) : HasOpenBrace(s[i])}
    IN IF hits = {} THEN -1 ELSE (CHOOSE i \in hits : \A k \in hits : i <= k) - 1
RFind(s) ==
    LET hits == {i \in 1..Len(s) : HasCloseBrace(s[i])}
    IN IF hits = {} THEN -1 ELSE (CHOOSE i \in hits : \A k \in hits : i >= k) - 1

\* s[a:b] with Python's treatment of negative and out-of-range positions
PySlice(s, a, b) ==
    LET norm(i) == IF i < 0 THEN Max(i + Len(s), 0) ELSE Min(i, Len(s))
        x == norm(a)
        y == norm(b)
    IN IF x >= y THEN <<>> ELSE SubSeq(s, x + 1, y)

\* json.loads(text): the value, or JSONDecodeError.  A text is valid iff it
\* is exactly one complete JSON text (white space around it is not modelled).
JSONDecodeError == <<"Expecting value">>
IndexError == <<"list index out of range">>
Loads(text) ==
    IF Len(text) = 1 /\ text[1].t = "json" /\ text[1].j.kind \in {"object", "number"}
    THEN [ok |-> TRUE, value |-> text[1].j, e |-> EmptyStr]
    ELSE [ok |-> FALSE, value |-> NoJson, e |-> JSONDecodeError]

\* The text of a reply, as the str the model endpoint returned
KeyOrder == <<"action", "url", "wait_for", "content_id", "html", "selector", "content">>
RECURSIVE DumpMembers(_, _)
DumpMembers(obj, keys) ==
    IF keys = <<>> THEN <<>>
    ELSE (IF Head(keys) \in DOMAIN obj
          THEN <<Head(keys), ": ">> \o obj[Head(keys)] \o <<", ">>
          ELSE <<>>) \o DumpMembers(obj, Tail(keys))
SegmentText(seg) ==
    CASE seg.t = "fence" -> <<"(fence)">>
      [] seg.t = "tag" -> <<"json", "/n">>
      [] seg.t = "text" -> <<"Let me think about this.">>
      [] seg.j.kind = "object" -> <<"{">> \o DumpMembers(seg.j.obj, KeyOrder) \o <<"}">>
      [] seg.j.kind = "number" -> <<"5">>
      [] OTHER -> <<"{", "action: ext">>
RECURSIVE ReplyText(_)
ReplyText(reply) ==
    IF reply = <<>> THEN <<>>
    ELSE SegmentText(Head(reply)) \o ReplyText(Tail(reply))

\* main.py _parse_llm_response: the text between "```json" and the next "```";
\* anything else makes the whole reply the content of a response action.
ParseMain(reply) ==
    LET parts == Split(reply, <<Fence, Tag>>)
        loaded == IF Len(parts) < 2
                  THEN [ok |-> FALSE, value |-> NoJson, e |-> IndexError]
                  ELSE Loads(Split(parts[2], <<Fence>>)[1])
    IN IF loaded.ok THEN loaded.value
       ELSE JObject([action |-> <<"response">>, content |-> ReplyText(reply)])

\* experimental.py _parse_llm_response, the first attempt: what stands after
\* the first "```", with a leading "json\n" cut off
ParseFenced(reply) ==
    LET parts == Split(reply, <<Fence>>)
    IN IF Len(parts) < 2
       THEN [ok |-> FALSE, value |-> NoJson, e |-> IndexError]
       ELSE LET json_str == IF parts[2] # <<>> /\ Head(parts[2]) = Tag
                            THEN Tail(parts[2]) ELSE parts[2]
            IN Loads(json_str)
\* the second attempt: from the first "{" to the last "}"
ParseBraces(reply) ==
    LET start == Find(reply)
        end == RFind(reply) + 1
    IN Loads(PySlice(reply, start, end))

\* experimental.py _parse_llm_response: both attempts; when both fail, a
\* response action whose content is "PARSE_ERROR: " and the first error
ParseExperimental(reply) ==
    LET first == ParseFenced(reply)
        second == ParseBraces(reply)
    IN IF first.ok THEN first.value
       ELSE IF second.ok THEN second.value
       ELSE JObject([action |-> <<"response">>,
                     content |-> <<"PARSE_ERROR", ": ">> \o first.e])

_parse_llm_response(v, reply) ==
    IF v = "main" THEN ParseMain(reply) ELSE ParseExperimental(reply)

\* ------------------------------------------------------------ adapters
\* A page is a sequence of elements, each a tag with the text inside it.
unwanted_tags == {"script", "style", "svg", "nav", "footer", "header", "form"}
RECURSIVE GetText(_)
GetText(html) ==
    IF html = <<>> THEN <<>>
    ELSE LET rest == GetText(Tail(html))
         IN IF Head(html).tag \in unwanted_tags THEN rest
            ELSE IF rest = <<>> THEN <<Head(html).text>>
            ELSE <<Head(html).text, "/n">> \o rest
\* _clean_html: the text outside the unwanted elements, cut to max_html_length
_clean_html(html) == PySlice(GetText(html), 0, max_html_length)

\* What the HTTP client, the browser and the selector engine do is theirs to
\* decide: an outcome says whether the call went through and what it gave.
Succeeds(html) == [ok |-> TRUE, html |-> html, e |-> EmptyStr]
Fails(e) == [ok |-> FALSE, html |-> <<>>, e |-> e]


\* What a call gives the loop: a value, or an exception that leaves the call
Value(v) == [raises |-> FALSE, v |-> v, e |-> EmptyStr]
Raises(e) == [raises |-> TRUE, v |-> <<>>, e |-> e]

\* fetch_website without its try/except: the failure leaves the call
fetch_website_Uncaught(outcome) ==
    IF outcome.ok THEN Value(_clean_html(outcome.html))
    ELSE Raises(outcome.e)

\* try: ... return self._clean_html(response.text)
\* except Exception as e: return f"FETCH_ERROR: {str(e)}"
fetch_website(outcome) ==
    IF outcome.ok THEN Value(_clean_html(outcome.html))
    ELSE Value(<<"FETCH_ERROR", ": ">> \o outcome.e)

fetch_dynamic_content(outcome) ==
    IF outcome.ok THEN Value(_clean_html(outcome.html))
    ELSE Value(<<"RENDER_ERROR", ": ">> \o outcome.e)

Selects(items) == [ok |-> TRUE, items |-> items, e |-> EmptyStr]
SelectFails(e) == [ok |-> FALSE, items |-> <<>>, e |-> e]
extract_data(outcome) ==
    IF outcome.ok THEN Value(outcome.items)
    ELSE Value(<< <<"EXTRACTION_ERROR", ": ">> \o outcome.e >>)

\* json.dumps of a list of str
RECURSIVE DumpItems(_)
DumpItems(items) ==
    IF items = <<>> THEN <<>>
    ELSE <<"'">> \o Head(items) \o <<"'">>
         \o (IF Len(items) > 1 THEN <<", ">> ELSE <<>>) \o DumpItems(Tail(items))
Dumps(items) == <<"[">> \o DumpItems(items) \o <<"]">>

\* -------------------------------------------------------- content store
EmptyStore == [r \in {} |-> EmptyStr]
\* a key that is the same at every call
Uuid_Fixed(n) == <<"uuid-", "0">>
\* str(uuid4()): the n-th value drawn, distinct from all drawn before
Uuid(n) == <<"uuid-", ToString(n)>>
\* dict assignment store[key] = content
\* Put into a store that keeps the newest entry only
Put_Replaces(store, key, content) == [r \in {key} |-> content]
Put(store, key, content) ==
    [r \in DOMAIN store \cup {key} |-> IF r = key THEN content ELSE store[r]]
\* dict.get(key)
Get(store, key) == IF key \in DOMAIN store THEN Some(store[key]) ELSE None

\* -------------------------------------------------------------- results
MAX_STEPS_REACHED == <<"MAX_STEPS_REACHED", ": Processing limit exceeded">>
INVALID_ACTION == <<"ERROR", ": Invalid action requested">>
AgentError(e) == <<"AGENT_ERROR", ": ">> \o e
CONTENT_NOT_FOUND == << <<"CONTENT_NOT_FOUND">> >>

error_prefixes == {"FETCH_ERROR", "RENDER_ERROR", "EXTRACTION_ERROR",
                   "AGENT_ERROR", "MAX_STEPS_REACHED", "PARSE_ERROR"}
_is_error(res) == StartsWith(res, error_prefixes)

\* What execute_agent_loop gave its caller: nothing yet, a str (main.py), a
\* dict (experimental.py), or an exception that left the call
NoDict == [k \in {} |-> EmptyStr]
NotReturned == [kind |-> "none", value |-> EmptyStr, dict |-> NoDict]
ReturnedStr(s) == [kind |-> "str", value |-> s, dict |-> NoDict]
ReturnedDict(d) == [kind |-> "dict", value |-> EmptyStr, dict |-> d]
Raised(e) == [kind |-> "exception", value |-> e, dict |-> NoDict]

\* --------------------------------------------------------------- inputs
Queries == {<<"Get latest AI news headlines">>}
Url == <<"http://example.test">>
Selector == <<"h1">>
Page == <<[tag |-> "h1", text |-> "Title"], [tag |-> "script", text |-> "var x = 1"]>>
BlankPage == <<[tag |-> "script", text |-> "var x = 1"]>>
FetchOutcomes == {Succeeds(Page), Succeeds(BlankPage), Fails(<<"Read timed out">>)}
RenderOutcomes == {Succeeds(Page), Fails(<<"Timeout 10000ms exceeded">>)}
ExtractOutcomes == {Selects(<< <<"Title">> >>), SelectFails(<<"Invalid selector">>)}
\* the content ids the model may ask to extract from
ContentIds == {Uuid(1), <<"no-such-id">>}

\* The JSON objects the model may send: the four actions of the prompt, each
\* also with a required field left out, an unknown action, and no action
ResponseBodies ==
    {[action |-> <<"response">>, content |-> <<"Paris">>],
     [action |-> <<"response">>, content |-> <<"FETCH_ERROR", ": ", "site is down">>],
     [action |-> <<"response">>]}
FetchBodies ==
    {[action |-> <<"fetch">>, url |-> Url], [action |-> <<"fetch">>]}
RenderBodies ==
    {[action |-> <<"render">>, url |-> Url, wait_for |-> Selector],
     [action |-> <<"render">>]}
ExtractBodies ==
    {[action |-> <<"extract">>, content_id |-> c, selector |-> Selector] : c \in ContentIds}
    \cup {[action |-> <<"extract">>, content_id |-> c] : c \in ContentIds}
    \cup {[action |-> <<"extract">>, html |-> <<"<h1>Title</h1>">>, selector |-> Selector],
          [action |-> <<"extract">>, html |-> <<"<h1>Title</h1>">>]}
OtherBodies ==
    {[action |-> <<"delete">>, url |-> Url], [url |-> Url]}
Bodies == ResponseBodies \cup FetchBodies \cup RenderBodies \cup ExtractBodies
          \cup OtherBodies

\* The replies of the model: each object in a ```json block; the final
\* answer and the unknown action also in a plain ``` block and bare inside
\* prose; and replies that hold no JSON object
WellFormed(b) == <<Fence, Tag, JsonText(JObject(b)), Fence>>
Untagged(b) == <<Prose, Fence, JsonText(JObject(b)), Fence>>
Bare(b) == <<Prose, JsonText(JObject(b)), Prose>>
NoJsonReplies ==
    {<<Prose>>,
     <<Fence, Tag, Prose, Fence>>,
     <<Fence, Tag, JsonText(JTruncated)>>,
     <<Prose, JsonText(JObject([action |-> <<"fetch">>, url |-> Url])), Prose,
       JsonText(JObject([action |-> <<"response">>, content |-> <<"Paris">>]))>>}
NonObjectReplies == {<<Fence, Tag, JsonText(JNumber), Fence>>}
LooseBodies == {[action |-> <<"response">>, content |-> <<"Paris">>],
                [action |-> <<"delete">>, url |-> Url]}
Replies == {WellFormed(b) : b \in Bodies} \cup {Untagged(b) : b \in LooseBodies}
           \cup {Bare(b) : b \in LooseBodies} \cup NoJsonReplies \cup NonObjectReplies
\* the action parsed from each reply, by each of the two parsers
Parsed == [v \in {"main", "experimental"} |->
              [reply \in Replies |-> _parse_llm_response(v, reply)]]

\* session.post(...).json() and response["choices"][0]["message"]["content"]:
\* the reply, or the exception of a failed transport, a body that is no JSON,
\* or a body without the expected fields
ModelFailures == {<<"Connection refused">>, <<"'choices'">>}
ModelReplied == [ok |-> TRUE, e |-> EmptyStr]
ModelFailed(e) == [ok |-> FALSE, e |-> e]
FormatterReplies == {<<"# Report">>}

\* ---------------------------------------------------------------- state
\* A thread that calls execute_agent_loop on the instance while other threads
\* do: where it is (pc), the steps its loop has taken, and the locals of its
\* call of _store_content (the content passed in, the content_id drawn)
Threads == 1..MaxThreads
IdleThread == [pc |-> "idle", steps |-> 0, content |-> EmptyStr, content_id |-> EmptyStr]

Init ==
    /\ variant \in {"main", "experimental"}
    /\ pc = "idle"
    /\ executions = 0
    /\ conversation_history = <<>>
    /\ content_store = EmptyStore
    /\ uuid_count = 0
    /\ step = 0
    /\ calls = 0
    /\ llm_message = <<>>
    /\ action = NoJson
    /\ response = ModelReplied
    /\ raw_result = EmptyStr
    /\ returned = NotReturned
    /\ adapter_calls = <<>>
    /\ issued = <<>>
    /\ threads = [t \in Threads |-> IdleThread]

\* execute_agent_loop / _run_scraping_operations up to the loop: a fresh
\* conversation of the system prompt and the user's query
Start ==
    /\ pc \in {"idle", "done", "raised"}
    /\ executions < MaxExecs
    /\ \E user_query \in Queries :
          conversation_history' = <<Message("system", GROQ_SYSTEM_PROMPT),
                                    Message("user", user_query)>>
    /\ executions' = executions + 1
    /\ pc' = "loop"
    /\ step' = 0
    /\ llm_message' = <<>>
    /\ action' = NoJson
    /\ response' = ModelReplied
    /\ raw_result' = EmptyStr
    /\ returned' = NotReturned
    /\ adapter_calls' = <<>>
    /\ UNCHANGED <<variant, threads, content_store, uuid_count, calls, issued>>

\* ------------------------------------------------------------- the loop
\* The end of a call.  main.py returns the loop's str as it is;
\* experimental.py's execute_agent_loop returns {"error": ...} for what
\* _is_error takes for an error and passes the rest on to _format_output.
Returns(raw) ==
    /\ raw_result' = raw
    /\ IF variant = "main"
       THEN pc' = "done" /\ returned' = ReturnedStr(raw)
       ELSE IF _is_error(raw)
            THEN pc' = "done" /\ returned' = ReturnedDict([error |-> raw])
            ELSE pc' = "format" /\ returned' = NotReturned

\* Continues with the history cut down to the prompt, the query and the
\* latest message
Continues_KeepsLatest(content) ==
    /\ conversation_history' =
          <<conversation_history[1], conversation_history[2],
            Message("assistant", content)>>
    /\ IF step + 1 = max_steps
       THEN Returns(MAX_STEPS_REACHED)
       ELSE pc' = "loop" /\ UNCHANGED <<raw_result, returned>>

\* Continues with the loop running one iteration too many
Continues_OneMore(content) ==
    /\ conversation_history' =
          Append(conversation_history, Message("assistant", content))
    /\ IF step + 1 = max_steps + 1
       THEN Returns(MAX_STEPS_REACHED)
       ELSE pc' = "loop" /\ UNCHANGED <<raw_result, returned>>

\* The end of an iteration that appended `content`: the next iteration, or
\* after the last one the return below the for loop
Continues(content) ==
    /\ conversation_history' =
          Append(conversation_history, Message("assistant", content))
    /\ IF step + 1 = max_steps
       THEN Returns(MAX_STEPS_REACHED)
       ELSE pc' = "loop" /\ UNCHANGED <<raw_result, returned>>

\* The head of an iteration: one more call of the model endpoint
Calls ==
    /\ pc = "loop"
    /\ calls < MaxCalls
    /\ calls' = calls + 1
    /\ step' = step + 1

\* The head of an iteration in which the model replied: the reply and the
\* action parsed from it
Replied(reply) ==
    /\ Calls
    /\ response' = ModelReplied
    /\ llm_message' = reply
    /\ action' = Parsed[variant][reply]

\* The exception the dispatch raises before it calls an adapter, if any:
\* action["action"] of a value that is no dict (TypeError) and action[k] of a
\* key the dict does not have (KeyError); None when it raises nothing
DispatchError(v, store, a) ==
    IF a.kind # "object" THEN Some(<<"'int' object is not subscriptable">>)
    ELSE LET o == a.obj
             Lacks(k) == k \notin DOMAIN o
         IN IF Lacks("action") THEN Some(<<"'action'">>)
            ELSE CASE o.action = <<"response">> ->
                        IF Lacks("content") THEN Some(<<"'content'">>) ELSE None
                   [] o.action \in {<<"fetch">>, <<"render">>} ->
                        IF Lacks("url") THEN Some(<<"'url'">>) ELSE None
                   [] o.action = <<"extract">> /\ v = "main" ->
                        IF Lacks("html") THEN Some(<<"'html'">>)
                        ELSE IF Lacks("selector") THEN Some(<<"'selector'">>)
                        ELSE None
                   [] o.action = <<"extract">> /\ v # "main" ->
                        IF Lacks("content_id") THEN Some(<<"'content_id'">>)
                        ELSE IF Truthy(Get(store, o.content_id)) /\ Lacks("selector")
                             THEN Some(<<"'selector'">>)
                        ELSE None
                   [] OTHER -> None

\* The branch of the if/elif chain an action takes
Branch(a) ==
    IF a.obj.action \in {<<"response">>, <<"fetch">>, <<"render">>, <<"extract">>}
    THEN a.obj.action[1] ELSE "else"

Dispatches(reply, branch) ==
    LET a == Parsed[variant][reply]
    IN /\ Replied(reply)
       /\ ~DispatchError(variant, content_store, a).some
       /\ Branch(a) = branch

\* _store_content that leaves an adapter's error string out of the store
_store_content_SkipsErrors(content, key) ==
    /\ key = Uuid(uuid_count + 1)
    /\ IF _is_error(content)
       THEN UNCHANGED <<uuid_count, content_store, issued>>
       ELSE /\ uuid_count' = uuid_count + 1
            /\ content_store' = Put(content_store, key, content)
            /\ issued' = Append(issued, [ref |-> key, payload |-> content])

\* _store_content: a fresh key, the payload under it, the key returned
\* (issued is the record of the calls: the key given out for each payload)
_store_content(content, key) ==
    /\ key = Uuid(uuid_count + 1)
    /\ uuid_count' = uuid_count + 1
    /\ content_store' = Put(content_store, key, content)
    /\ issued' = Append(issued, [ref |-> key, payload |-> content])

\* FetchMessage with the fetched text in the message, as main.py has it
FetchMessage_Inline(v, key, url, res) ==
    <<"FETCHED:">> \o key \o <<"|">> \o url \o res

\* The assistant messages of the three continuing branches
FetchMessage(v, key, url, res) ==
    IF v = "main" THEN <<"Fetched content from ">> \o url \o <<":/n">> \o res
    ELSE <<"FETCHED:">> \o key \o <<"|">> \o url
RenderMessage(v, key, url, res) ==
    IF v = "main" THEN <<"Rendered content from ">> \o url \o <<":/n">> \o res
    ELSE <<"RENDERED:">> \o key \o <<"|">> \o url
ExtractMessage(v, selector, res) ==
    IF v = "main"
    THEN <<"Extraction results using '">> \o selector \o <<"':/n">> \o Dumps(res)
    ELSE <<"EXTRACTED:">> \o Dumps(res)

\* One call of an adapter, as a test double would record it: the adapter, its
\* arguments, whether the transport, browser or selector engine under it
\* went through, and what the adapter returned
Call(name, arg, selector, ok, result) ==
    [name |-> name, arg |-> arg, selector |-> selector, ok |-> ok,
     result |-> result]

\* ModelFails with the failed call tried again in the next iteration
ModelFails_Retries ==
    /\ Calls
    /\ \E e \in ModelFailures : response' = ModelFailed(e)
    /\ IF step + 1 = max_steps
       THEN Returns(MAX_STEPS_REACHED)
       ELSE pc' = "loop" /\ UNCHANGED <<raw_result, returned>>
    /\ UNCHANGED <<variant, threads, executions, conversation_history, content_store,
                   uuid_count, llm_message, action, adapter_calls, issued>>

\* the model call raised: except Exception -> "AGENT_ERROR: ..."
ModelFails ==
    /\ Calls
    /\ \E e \in ModelFailures :
          /\ response' = ModelFailed(e)
          /\ Returns(AgentError(e))
    /\ UNCHANGED <<variant, threads, executions, conversation_history, content_store,
                   uuid_count, llm_message, action, adapter_calls, issued>>

\* the dispatch raised: except Exception -> "AGENT_ERROR: ..."
StepRaises ==
    \E reply \in Replies :
       LET err == DispatchError(variant, content_store, Parsed[variant][reply])
       IN /\ Replied(reply)
          /\ err.some
          /\ Returns(AgentError(err.v))
          /\ UNCHANGED <<variant, threads, executions, conversation_history, content_store,
                         uuid_count, adapter_calls, issued>>

\* StepResponse with the answer also appended to the conversation
StepResponse_Appends ==
    \E reply \in Replies :
       /\ Dispatches(reply, "response")
       /\ Returns(Parsed[variant][reply].obj.content)
       /\ conversation_history' =
             Append(conversation_history,
                    Message("assistant", Parsed[variant][reply].obj.content))
       /\ UNCHANGED <<variant, threads, executions, content_store,
                      uuid_count, adapter_calls, issued>>

\* if action["action"] == "response": return action["content"]
StepResponse ==
    \E reply \in Replies :
       /\ Dispatches(reply, "response")
       /\ Returns(Parsed[variant][reply].obj.content)
       /\ UNCHANGED <<variant, threads, executions, conversation_history, content_store,
                      uuid_count, adapter_calls, issued>>

\* elif action["action"] == "fetch"
StepFetch ==
    \E reply \in Replies, outcome \in FetchOutcomes :
       LET url == Parsed[variant][reply].obj.url
           res == fetch_website(outcome)
           content_id == Uuid(uuid_count + 1)
       IN /\ Dispatches(reply, "fetch")
          /\ adapter_calls' = Append(adapter_calls, Call("fetch", url, None, outcome.ok, res.v))
          /\ IF res.raises
             THEN /\ Returns(AgentError(res.e))
                  /\ UNCHANGED <<conversation_history, content_store, uuid_count, issued>>
             ELSE /\ IF variant = "main"
                     THEN UNCHANGED <<content_store, uuid_count, issued>>
                     ELSE uuid_count < MaxStored /\ _store_content(res.v, content_id)
                  /\ Continues(FetchMessage(variant, content_id, url, res.v))
          /\ UNCHANGED <<variant, threads, executions>>

\* elif action["action"] == "render"
StepRender ==
    \E reply \in Replies, outcome \in RenderOutcomes :
       LET o == Parsed[variant][reply].obj
           wait_for == IF "wait_for" \in DOMAIN o THEN Some(o.wait_for) ELSE None
           res == fetch_dynamic_content(outcome)
           content_id == Uuid(uuid_count + 1)
       IN /\ Dispatches(reply, "render")
          /\ adapter_calls' = Append(adapter_calls, Call("render", o.url, wait_for, outcome.ok, res.v))
          /\ IF res.raises
             THEN /\ Returns(AgentError(res.e))
                  /\ UNCHANGED <<conversation_history, content_store, uuid_count, issued>>
             ELSE /\ IF variant = "main"
                     THEN UNCHANGED <<content_store, uuid_count, issued>>
                     ELSE uuid_count < MaxStored /\ _store_content(res.v, content_id)
                  /\ Continues(RenderMessage(variant, content_id, o.url, res.v))
          /\ UNCHANGED <<variant, threads, executions>>

\* elif action["action"] == "extract" of main.py: from the html of the action
StepExtractInline ==
    \E reply \in Replies, outcome \in ExtractOutcomes :
       LET o == Parsed[variant][reply].obj
           res == extract_data(outcome)
       IN /\ variant = "main"
          /\ Dispatches(reply, "extract")
          /\ adapter_calls' = Append(adapter_calls,
                                     Call("extract", o.html, Some(o.selector), outcome.ok, res.v))
          /\ IF res.raises
             THEN Returns(AgentError(res.e)) /\ UNCHANGED conversation_history
             ELSE Continues(ExtractMessage(variant, o.selector, res.v))
          /\ UNCHANGED <<variant, threads, executions, content_store, uuid_count, issued>>

\* the same branch of experimental.py, the content_id is not in the store
\* or its content is falsy: result = ["CONTENT_NOT_FOUND"], no extraction
StepExtractNotFound ==
    \E reply \in Replies :
       LET o == Parsed[variant][reply].obj
       IN /\ variant = "experimental"
          /\ Dispatches(reply, "extract")
          /\ ~Truthy(Get(content_store, o.content_id))
          /\ Continues(ExtractMessage(variant, EmptyStr, CONTENT_NOT_FOUND))
          /\ UNCHANGED <<variant, threads, executions, content_store, uuid_count,
                         adapter_calls, issued>>

\* the same branch of experimental.py, the store has content for content_id
StepExtractStored ==
    \E reply \in Replies, outcome \in ExtractOutcomes :
       LET o == Parsed[variant][reply].obj
           content == Get(content_store, o.content_id)
           res == extract_data(outcome)
       IN /\ variant = "experimental"
          /\ Dispatches(reply, "extract")
          /\ Truthy(content)
          /\ adapter_calls' = Append(adapter_calls,
                                     Call("extract", content.v, Some(o.selector), outcome.ok, res.v))
          /\ IF res.raises
             THEN Returns(AgentError(res.e)) /\ UNCHANGED conversation_history
             ELSE Continues(ExtractMessage(variant, o.selector, res.v))
          /\ UNCHANGED <<variant, threads, executions, content_store, uuid_count, issued>>

\* else: return "ERROR: Invalid action requested"
StepInvalid ==
    \E reply \in Replies :
       /\ Dispatches(reply, "else")
       /\ Returns(INVALID_ACTION)
       /\ UNCHANGED <<variant, threads, executions, conversation_history, content_store,
                      uuid_count, adapter_calls, issued>>

\* experimental.py _format_output: the second model call; nothing catches
\* what it raises
FormatOutput ==
    /\ pc = "format"
    /\ \/ \E formatted \in FormatterReplies :
             /\ returned' = ReturnedDict([raw_data |-> raw_result,
                                          formatted |-> formatted])
             /\ pc' = "done"
       \/ \E e \in ModelFailures :
             /\ returned' = Raised(e)
             /\ pc' = "raised"
    /\ UNCHANGED <<variant, threads, executions, conversation_history, content_store,
                   uuid_count, step, calls, response, llm_message, action, raw_result,
                   adapter_calls, issued>>

Next ==
    \/ Start
    \/ ModelFails
    \/ StepRaises
    \/ StepResponse
    \/ StepFetch
    \/ StepRender
    \/ StepExtractInline
    \/ StepExtractNotFound
    \/ StepExtractStored
    \/ StepInvalid
    \/ FormatOutput

Spec == Init /\ [][Next]_vars

\* ------------------------------------------- concurrent calls, one store
\* Several threads call execute_agent_loop of one experimental.py instance
\* at the same time.  Each has its own conversation; self.content_store is
\* the one dict of the instance.  A thread's call of _store_content is three
\* steps, one per line of the function, and the steps of the threads
\* interleave.  str(uuid4()) is a draw no other draw equals; the assignment
\* content_store[content_id] = content is one dict operation.  The variables
\* of the single-threaded loop above stay as Init left them.
SeqVars == <<variant, pc, executions, conversation_history, step, calls,
             response, llm_message, action, raw_result, returned, adapter_calls>>
\* the str a fetch or render step passes to _store_content
StoredPayloads == {fetch_website(o).v : o \in FetchOutcomes}
\* calls of _store_content begun so far
StoresBegun == uuid_count + Cardinality({t \in Threads : threads[t].pc = "mint"})

ConcInit == Init /\ variant = "experimental"

\* a thread calls execute_agent_loop
T_Start(t) ==
    /\ threads[t].pc = "idle"
    /\ threads' = [threads EXCEPT ![t].pc = "loop"]
    /\ UNCHANGED <<SeqVars, content_store, uuid_count, issued>>

\* a fetch or render step of the thread's loop: the adapter has returned
\* `content` and the thread enters _store_content(content)
T_Call(t) ==
    /\ threads[t].pc = "loop"
    /\ threads[t].steps < max_steps
    /\ StoresBegun < MaxThreadStores
    /\ \E content \in StoredPayloads :
          threads' = [threads EXCEPT ![t].pc = "mint", ![t].content = content]
    /\ UNCHANGED <<SeqVars, content_store, uuid_count, issued>>

\* T_Mint with the key made from the size of the dict the thread sees
T_Mint_FromSize(t) ==
    /\ threads[t].pc = "mint"
    /\ uuid_count' = uuid_count + 1
    /\ threads' = [threads EXCEPT
                      ![t].pc = "assign",
                      ![t].content_id = Uuid(Cardinality(DOMAIN content_store) + 1)]
    /\ UNCHANGED <<SeqVars, content_store, issued>>

\* content_id = str(uuid4())
T_Mint(t) ==
    /\ threads[t].pc = "mint"
    /\ uuid_count' = uuid_count + 1
    /\ threads' = [threads EXCEPT ![t].pc = "assign",
                                  ![t].content_id = Uuid(uuid_count + 1)]
    /\ UNCHANGED <<SeqVars, content_store, issued>>

\* self.content_store[content_id] = content
T_Assign(t) ==
    /\ threads[t].pc = "assign"
    /\ content_store' = Put(content_store, threads[t].content_id, threads[t].content)
    /\ threads' = [threads EXCEPT ![t].pc = "return"]
    /\ UNCHANGED <<SeqVars, uuid_count, issued>>

\* return content_id, and the rest of the step: the loop goes on
T_Return(t) ==
    /\ threads[t].pc = "return"
    /\ issued' = Append(issued, [ref |-> threads[t].content_id,
                                 payload |-> threads[t].content])
    /\ threads' = [threads EXCEPT ![t].pc = "loop", ![t].steps = @ + 1]
    /\ UNCHANGED <<SeqVars, content_store, uuid_count>>

\* the thread's loop ends: a response action, an error, or the step limit
T_Finish(t) ==
    /\ threads[t].pc = "loop"
    /\ threads' = [threads EXCEPT ![t].pc = "done"]
    /\ UNCHANGED <<SeqVars, content_store, uuid_count, issued>>

ConcNext ==
    \E t \in Threads :
       \/ T_Start(t)
       \/ T_Call(t)
       \/ T_Mint(t)
       \/ T_Assign(t)
       \/ T_Return(t)
       \/ T_Finish(t)

ConcSpec == ConcInit /\ [][ConcNext]_vars

\* ================================================================ claims
\* The loop of the current call has ended
LoopEnded == pc \in {"format", "done", "raised"}
\* The last iteration took the fetch, render or extract branch and nothing
\* in it raised: it neither returned an answer nor left with an error
LastContinued ==
    /\ step > 0
    /\ response.ok
    /\ action.kind = "object"
    /\ ~DispatchError(variant, content_store, action).some
    /\ Branch(action) \in {"fetch", "render", "extract"}

\* C1: one execution of the loop calls the model at most max_steps = 5 times
\* and is over after the fifth call; when the fifth iteration too was a
\* fetch, render or extract step (no reply was a response action, nothing
\* left with an error), the loop's result is "MAX_STEPS_REACHED: ...".
C1_LoopBounded ==
    /\ step <= max_steps
    /\ (pc = "loop" => step < max_steps)
    /\ (LoopEnded /\ step = max_steps /\ LastContinued
          => raw_result = MAX_STEPS_REACHED)
C1_Witness ==
    /\ LoopEnded /\ step = max_steps /\ LastContinued
    /\ raw_result = MAX_STEPS_REACHED

\* The model's reply held a JSON text the parser took the action from (the
\* action is the model's, not the response action the parser makes up)
Decoded ==
    /\ response.ok
    /\ llm_message # <<>>
    /\ IF variant = "main"
       THEN action # JObject([action |-> <<"response">>,
                              content |-> ReplyText(llm_message)])
       ELSE ParseFenced(llm_message).ok \/ ParseBraces(llm_message).ok
\* The loop ended through a response action of the model
ModelResponded ==
    /\ LoopEnded
    /\ Decoded
    /\ action.kind = "object"
    /\ ~DispatchError(variant, content_store, action).some
    /\ Branch(action) = "response"

\* C2 (as claimed): the dict execute_agent_loop of experimental.py returns is
\* {"error": ...} exactly when the loop ended in an error outcome, and carries
\* "raw_data" exactly when the loop ended through a response action of the
\* model.
C2_AsClaimed ==
    (variant = "experimental" /\ pc = "done")
       => /\ returned.kind = "dict"
          /\ ("error" \in DOMAIN returned.dict) # ("raw_data" \in DOMAIN returned.dict)
          /\ ("raw_data" \in DOMAIN returned.dict) <=> ModelResponded

Last(seq) == seq[Len(seq)]
Range(seq) == {seq[i] : i \in 1..Len(seq)}
IsPrefix(a, b) == Len(a) <= Len(b) /\ SubSeq(b, 1, Len(a)) = a
\* This step is an iteration of the loop in which the model replied
ReplyStep == calls' = calls + 1 /\ response'.ok
\* This step called an adapter
AdapterStep == Len(adapter_calls') = Len(adapter_calls) + 1
\* This step appended exactly one assistant message to the conversation
AppendsOne ==
    /\ Len(conversation_history') = Len(conversation_history) + 1
    /\ IsPrefix(conversation_history, conversation_history')
    /\ Last(conversation_history').role = "assistant"

\* The reply holds no complete JSON text: prose, or JSON cut off half way
NoRecognizableJson(reply) ==
    \A i \in 1..Len(reply) :
       ~(reply[i].t = "json" /\ reply[i].j.kind \in {"object", "number"})

\* C3 (as claimed): for a reply with no recognizable JSON the codec yields
\* the Invalid action (none of the four recognized tags), and the loop ends
\* in that step in an error derived from it, not as Responded, with no
\* adapter called and at most max_steps steps taken.
C3_AsClaimed ==
    [][(ReplyStep /\ NoRecognizableJson(llm_message'))
         => /\ Branch(action') = "else"
            /\ pc' # "loop"
            /\ raw_result' = INVALID_ACTION
            /\ adapter_calls' = adapter_calls
            /\ step' <= max_steps]_vars

\* C4 (as claimed): when the reply parses to a JSON object whose action field
\* is absent or is none of fetch, render, extract, response, the loop ends
\* with exactly "ERROR: Invalid action requested".
C4_AsClaimed ==
    (/\ step > 0
     /\ Decoded
     /\ action.kind = "object"
     /\ \/ "action" \notin DOMAIN action.obj
        \/ action.obj.action \notin
              {<<"fetch">>, <<"render">>, <<"extract">>, <<"response">>})
       => LoopEnded /\ raw_result = INVALID_ACTION

\* C5 (as claimed): when the loop ended with a raw answer, the result of
\* execute_agent_loop carries that answer, also when the formatter's model
\* call failed.
C5_AsClaimed ==
    (variant = "experimental" /\ pc \in {"done", "raised"} /\ ~_is_error(raw_result))
       => /\ returned.kind = "dict"
          /\ "raw_data" \in DOMAIN returned.dict
          /\ returned.dict.raw_data = raw_result

\* C6 (as claimed): when the Fetch Adapter fails in a fetch step, the
\* assistant message that step appends holds the "FETCH_ERROR" diagnostic.
C6_AsClaimed ==
    [][(/\ AdapterStep
        /\ Last(adapter_calls').name = "fetch"
        /\ ~Last(adapter_calls').ok)
         => /\ AppendsOne
            /\ "FETCH_ERROR" \in Range(Last(conversation_history').content)]_vars

\* C7: a step in which the Fetch, Render or Extract adapter failed appends
\* exactly one assistant message, takes one step of the budget and leaves the
\* loop running, unless it was the last of the max_steps steps (then the loop
\* ends with the step-budget result).
C7_AdapterFailureContinues ==
    [][(AdapterStep /\ ~Last(adapter_calls').ok)
         => /\ AppendsOne
            /\ step' = step + 1
            /\ IF step' < max_steps THEN pc' = "loop"
               ELSE LoopEnded' /\ raw_result' = MAX_STEPS_REACHED]_vars
C7_Witness ==
    /\ pc = "loop"
    /\ {c.name : c \in {d \in Range(adapter_calls) : ~d.ok}}
          = {"fetch", "render", "extract"}

\* C8: the lookup of a ref _store_content returned for a non-empty payload
\* gives exactly that payload in every later state, and the lookup of a ref
\* that was never issued gives None.
CandidateRefs == ContentIds \cup {Uuid(n) : n \in 1..(MaxStored + 1)}
C8_RoundTrip ==
    /\ \A k \in 1..Len(issued) :
          issued[k].payload # EmptyStr
             => Get(content_store, issued[k].ref) = Some(issued[k].payload)
    /\ \A r \in CandidateRefs :
          (\A k \in 1..Len(issued) : issued[k].ref # r)
             => Get(content_store, r) = None
C8_Witness ==
    /\ executions = 2
    /\ Len(issued) = 2
    /\ issued[1].payload # EmptyStr
    /\ issued[2].payload # issued[1].payload
    /\ Get(content_store, issued[1].ref) = Some(issued[1].payload)

\* C9 (as claimed): in an extract step of experimental.py the "not found"
\* sentinel is the result iff the content_id is absent from the store; for a
\* content_id that is in the store, whatever its payload, the Extractor is
\* called on the stored payload.
C9_AsClaimed ==
    [][(/\ variant = "experimental"
        /\ ReplyStep
        /\ action'.kind = "object"
        /\ ~DispatchError(variant, content_store, action').some
        /\ Branch(action') = "extract")
         => LET key == action'.obj.content_id
            IN /\ AppendsOne
               /\ (Last(conversation_history').content
                      = ExtractMessage(variant, EmptyStr, CONTENT_NOT_FOUND))
                    <=> key \notin DOMAIN content_store
               /\ key \in DOMAIN content_store
                    => /\ AdapterStep
                       /\ Last(adapter_calls').name = "extract"
                       /\ Last(adapter_calls').arg = content_store[key]]_vars

\* C10: a call starts the conversation as [system prompt, user query], and
\* every step within the call leaves the conversation it found as a prefix
\* of the conversation it leaves.
C10_AppendOnly ==
    [][IF executions' # executions
       THEN \E q \in Queries :
               conversation_history' = <<Message("system", GROQ_SYSTEM_PROMPT),
                                         Message("user", q)>>
       ELSE IsPrefix(conversation_history, conversation_history')]_vars
C10_Witness ==
    /\ pc = "loop"
    /\ Len(conversation_history) >= 2 + 3

\* C11: a step in which the model call failed ends the loop at once with a
\* result that begins "AGENT_ERROR" (the caller gets it without a formatter
\* call), and from then until the next call of execute_agent_loop there is no
\* model call, no adapter call, no store insert and no conversation append.
C11_ModelFailureFatal ==
    [][/\ (calls' = calls + 1 /\ ~response'.ok)
            => /\ pc' = "done"
               /\ StartsWith(raw_result', {"AGENT_ERROR"})
               /\ UNCHANGED <<adapter_calls, content_store, issued,
                              conversation_history>>
       /\ (~response.ok /\ executions' = executions)
            => UNCHANGED <<calls, adapter_calls, content_store, issued,
                           conversation_history, pc, raw_result>>]_vars
C11_Witness ==
    /\ ~response.ok
    /\ pc = "done"
    /\ step = 3
    /\ Len(adapter_calls) = 2
    /\ StartsWith(raw_result, {"AGENT_ERROR"})

\* The ref a "FETCHED:<ref>|<url>" or "RENDERED:<ref>|<url>" message names:
\* the text between the tag and the bar
BarAt(content) == CHOOSE i \in 1..Len(content) : content[i] = "|"
AnnouncedRef(content) == SubSeq(content, 2, BarAt(content) - 1)
\* The reply of this step parsed to an action the dispatch takes on `branch`
\* without raising
NextTakes(branch) ==
    /\ ReplyStep
    /\ action'.kind = "object"
    /\ ~DispatchError(variant, content_store, action').some
    /\ Branch(action') = branch
\* Two steps of scenario B are done: step 1 was a fetch that succeeded and
\* announced a ref, step 2 was an extract action with that ref as content_id
\* and a selector
ScenarioB_TwoSteps ==
    /\ variant = "experimental"
    /\ pc = "loop"
    /\ step = 2
    /\ conversation_history[3].content[1] = "FETCHED:"
    /\ adapter_calls[1].name = "fetch"
    /\ adapter_calls[1].ok
    /\ response.ok
    /\ action.kind = "object"
    /\ {"action", "content_id", "selector"} \subseteq DOMAIN action.obj
    /\ action.obj.action = <<"extract">>
    /\ action.obj.content_id = AnnouncedRef(conversation_history[3].content)

\* C12 (as claimed): in scenario B (fetch that succeeds, extract with the ref
\* announced in step 1, response) the loop returns the content of the response
\* action after exactly 3 model calls, having called fetch_website once and
\* extract_data once, the latter on the payload stored in step 1.
C12_AsClaimed ==
    [][(ScenarioB_TwoSteps /\ NextTakes("response") /\ Decoded')
         => LET ref == AnnouncedRef(conversation_history[3].content)
            IN /\ step' = 3
               /\ LoopEnded'
               /\ raw_result' = action'.obj.content
               /\ Len(adapter_calls') = 2
               /\ adapter_calls'[1].name = "fetch"
               /\ adapter_calls'[2].name = "extract"
               /\ adapter_calls'[2].arg = content_store'[ref]
               /\ \E k \in 1..Len(issued') :
                     /\ issued'[k].ref = ref
                     /\ issued'[k].payload = adapter_calls'[2].arg]_vars

\* C13: when the first reply of a call is a response action with content c,
\* the loop returns c after that one model call: no adapter was called, the
\* content store is as it was and the conversation is still the system
\* prompt and the query.
C13_ScenarioA ==
    [][(step = 0 /\ NextTakes("response"))
         => /\ step' = 1
            /\ LoopEnded'
            /\ raw_result' = action'.obj.content
            /\ (variant = "main" => returned' = ReturnedStr(action'.obj.content))
            /\ adapter_calls' = <<>>
            /\ content_store' = content_store
            /\ issued' = issued
            /\ conversation_history' = conversation_history
            /\ Len(conversation_history') = 2]_vars
C13_Witness ==
    /\ executions = 2
    /\ step = 1
    /\ ModelResponded
    /\ raw_result = <<"Paris">>
    /\ adapter_calls = <<>>
    /\ content_store # EmptyStore
    /\ Len(conversation_history) = 2

\* The threads that are inside _store_content with a key drawn
Holding(pcs) == {t \in Threads : threads[t].pc \in pcs}

\* C14: with several threads storing into the one content_store, every key
\* _store_content returns differs from all keys returned before, a key drawn
\* is not in the store before the thread that drew it assigns it and is held
\* by no other thread, and no entry is lost or overwritten: every payload
\* assigned is in the store under its key, and the store has one entry per
\* assignment made.
C14_ConcurrentStores ==
    /\ \A i, j \in 1..Len(issued) : i # j => issued[i].ref # issued[j].ref
    /\ \A t \in Holding({"assign"}) :
          /\ threads[t].content_id \notin DOMAIN content_store
          /\ \A k \in 1..Len(issued) : issued[k].ref # threads[t].content_id
    /\ \A t, u \in Holding({"assign", "return"}) :
          t # u => threads[t].content_id # threads[u].content_id
    /\ \A k \in 1..Len(issued) :
          Get(content_store, issued[k].ref) = Some(issued[k].payload)
    /\ \A t \in Holding({"return"}) :
          Get(content_store, threads[t].content_id) = Some(threads[t].content)
    /\ Cardinality(DOMAIN content_store)
          = Len(issued) + Cardinality(Holding({"return"}))
\* two calls overlapped: the thread that drew its key first returned last,
\* and both payloads are in the store
C14_Witness ==
    /\ Len(issued) = 2
    /\ issued[1].ref = Uuid(2)
    /\ issued[2].ref = Uuid(1)
    /\ issued[1].payload # issued[2].payload
    /\ Cardinality(DOMAIN content_store) = 2

\* The ref was drawn in the current call of execute_agent_loop: one of the
\* call's FETCHED or RENDERED messages announces it
MintedHere(ref) ==
    \E i \in 1..Len(conversation_history) :
       LET content == conversation_history[i].content
       IN /\ conversation_history[i].role = "assistant"
          /\ content[1] \in {"FETCHED:", "RENDERED:"}
          /\ AnnouncedRef(content) = ref

\* C15 (as claimed): an extract step of experimental.py hands extract_data a
\* stored payload only for a content_id whose ref was drawn in the same call
\* of execute_agent_loop; a content_id from another call is not found.
C15_AsClaimed ==
    [][(/\ variant = "experimental"
        /\ AdapterStep
        /\ Last(adapter_calls').name = "extract")
         => MintedHere(action'.obj.content_id)]_vars

\* The str `s` has `sub` in it
Contains(s, sub) ==
    \E i \in 0..(Len(s) - Len(sub)) : SubSeq(s, i + 1, i + Len(sub)) = sub

\* C16 (as claimed): a step after which the loop goes on has put into the
\* conversation the next model call is given, as its newest entry, one
\* message in which every field of the action the model issued in that step
\* can be read (the url, the wait_for, the html or content_id, the selector).
C16_AsClaimed ==
    [][(ReplyStep /\ pc' = "loop")
         => /\ AppendsOne
            /\ \A k \in DOMAIN action'.obj \ {"action"} :
                  Contains(Last(conversation_history').content, action'.obj[k])]_vars

\* C17: no step deletes an entry of the content store or changes the payload
\* of a ref that is in it: every ref of the store is in the store of the next
\* state with the same payload, within a call of execute_agent_loop and from
\* one call to the next.
C17_InsertOnly ==
    [][\A r \in DOMAIN content_store :
          /\ r \in DOMAIN content_store'
          /\ content_store'[r] = content_store[r]]_vars
\* the second call has stored a payload next to the one the first call stored
C17_Witness ==
    /\ executions = 2
    /\ Len(issued) = 2
    /\ ~MintedHere(issued[1].ref)
    /\ MintedHere(issued[2].ref)
    /\ content_store[issued[1].ref] = issued[1].payload
    /\ content_store[issued[2].ref] = issued[2].payload

\* The entries the current call of execute_agent_loop has put into the store
InsertedHere == {r \in DOMAIN content_store : MintedHere(r)}

\* C18: in experimental.py a fetch step and a render step put exactly one
\* new entry into the content store, also when the adapter returned its
\* error string (the entry then holds that string); every other step of a
\* call (extract, response, invalid action, a step that raised, the
\* formatter) leaves the store as it is; and a call has put at most
\* max_steps = 5 entries into it.
C18_OneInsertPerFetch ==
    [][(variant = "experimental" /\ executions' = executions)
         => /\ IF NextTakes("fetch") \/ NextTakes("render")
               THEN /\ DOMAIN content_store \subseteq DOMAIN content_store'
                    /\ Cardinality(DOMAIN content_store')
                          = Cardinality(DOMAIN content_store) + 1
                    /\ \E r \in DOMAIN content_store' \ DOMAIN content_store :
                          /\ r = Last(issued').ref
                          /\ ~Last(adapter_calls').ok
                                => _is_error(content_store'[r])
               ELSE content_store' = content_store
            /\ Cardinality(InsertedHere') <= max_steps]_vars
\* a call of five fetch and render steps, one of them failed: five entries
C18_Witness ==
    /\ variant = "experimental"
    /\ step = max_steps
    /\ Cardinality(InsertedHere) = max_steps
    /\ \E r \in InsertedHere : _is_error(content_store[r])
    /\ \E r \in InsertedHere : ~_is_error(content_store[r])

\* The FETCHED and RENDERED messages of the conversation, and the calls of
\* the fetch and render adapters the current call has made, both in order
IsStoreMessage(m) ==
    m.role = "assistant" /\ m.content[1] \in {"FETCHED:", "RENDERED:"}
IsStoreCall(c) == c.name \in {"fetch", "render"}
StoreMessages == SelectSeq(conversation_history, IsStoreMessage)
StoreCalls == SelectSeq(adapter_calls, IsStoreCall)

\* C19: in experimental.py the FETCHED and RENDERED messages of the
\* conversation are, one for one and in order, those of the fetch and render
\* adapter calls made; each is exactly the tag, a ref and the url of its call;
\* the ref is a key of the content store, the payload under it is the str the
\* adapter returned in that call (its error string too), and the message
\* does not hold that payload.
C19_ReferenceIntegrity ==
    variant = "experimental"
       => /\ Len(StoreMessages) = Len(StoreCalls)
          /\ \A j \in 1..Len(StoreMessages) :
                LET content == StoreMessages[j].content
                    c == StoreCalls[j]
                    ref == AnnouncedRef(content)
                IN /\ ref \in DOMAIN content_store
                   /\ content_store[ref] = c.result
                   /\ content = <<IF c.name = "fetch" THEN "FETCHED:" ELSE "RENDERED:">>
                                   \o ref \o <<"|">> \o c.arg
                   /\ c.result # EmptyStr => ~Contains(content, c.result)
\* a fetch that failed and a render that went through, both announced
C19_Witness ==
    /\ variant = "experimental"
    /\ Len(StoreMessages) = 2
    /\ StoreCalls[1].name = "fetch"
    /\ ~StoreCalls[1].ok
    /\ _is_error(content_store[AnnouncedRef(StoreMessages[1].content)])
    /\ StoreCalls[2].name = "render"
    /\ StoreCalls[2].ok
    /\ content_store[AnnouncedRef(StoreMessages[2].content)] = StoreCalls[2].result

\* The fields the branch of an action reads besides "action"
RequiredFields(v, tag) ==
    CASE tag = <<"response">> -> {"content"}
      [] tag \in {<<"fetch">>, <<"render">>} -> {"url"}
      [] tag = <<"extract">> ->
            IF v = "main" THEN {"html", "selector"} ELSE {"content_id", "selector"}

\* C20 (as claimed): a step whose reply parses to a fetch, render, extract or
\* response action without one of the fields its branch requires ends the
\* loop with a result that begins "AGENT_ERROR", calls no adapter and leaves
\* the content store and the conversation as they were.
C20_AsClaimed ==
    [][(/\ ReplyStep
        /\ action'.kind = "object"
        /\ "action" \in DOMAIN action'.obj
        /\ action'.obj.action \in {<<"fetch">>, <<"render">>, <<"extract">>, <<"response">>}
        /\ ~(RequiredFields(variant, action'.obj.action) \subseteq DOMAIN action'.obj))
         => /\ LoopEnded'
            /\ StartsWith(raw_result', {"AGENT_ERROR"})
            /\ UNCHANGED <<content_store, conversation_history, adapter_calls>>]_vars

====
